---- MODULE Spec2Model ----
(***************************************************************************)
(* Model of src/src/bmp.rs: the bounds-checked cursor primitives and the   *)
(* three decoding stages read_bmp_header, read_dib_header and              *)
(* read_pixel_array that decode_bmp runs over one immutable byte vector.   *)
(* The cursor is the 0-based offset of the source; the byte vector is a    *)
(* 1-based sequence, so data[i] of the source is data[i + 1] here.         *)
(***************************************************************************)
EXTENDS Integers, Sequences, FiniteSets, TLC

VARIABLES data, bigEndian, cursor, pc, err, length, width, height, depth,
          info, a, b, g, row_vec, pixel_arr, result, hiRead

vars == <<data, bigEndian, cursor, pc, err, length, width, height, depth,
          info, a, b, g, row_vec, pixel_arr, result, hiRead>>

----------------------------------------------------------------------------
(* Bounds of the explored inputs. *)

\* largest declared width and height of the generated images
MaxW == 2
MaxH == 2
\* bytes that follow the pixel array in the longest generated buffer
MaxExtra == 1

----------------------------------------------------------------------------
(* Program constants. *)

FileHeaderLen == 14
DibFieldsLen == 16
PlanesLen == 2
MagicB == 66
MagicM == 77

\* the Err(String) values of the source, under the names of the error kinds
NoErr == "none"
OutOfBounds == "BMP file is too small."
IncorrectAccess == "Incorrect byte access."
InvalidMagic == "BMP file header has incorrect magic values."
UnsupportedHeaderVariant == "Unsupported DIB header type."
UnsupportedBitDepth == "Unsupported bit depth."

NoInfo == [none |-> TRUE]
NoResult == [none |-> TRUE]

Max(x, y) == IF x >= y THEN x ELSE y

----------------------------------------------------------------------------
(* The cursor primitives. Each returns the error (NoErr on success), the   *)
(* cursor after the call, the value read and the end of the span of data   *)
(* it dereferenced (0 when it dereferenced nothing).                       *)

\* consume_n with the cursor assigned before the bounds check
consume_n_partial(d, cur, n) ==
    IF cur + n > Len(d)
    THEN [err |-> OutOfBounds, cursor |-> cur + n]
    ELSE [err |-> NoErr, cursor |-> cur + n]

\* consume_n with a bounds check that is off by one
consume_n_lenient(d, cur, n) ==
    IF cur + n > Len(d) + 1
    THEN [err |-> OutOfBounds, cursor |-> cur]
    ELSE [err |-> NoErr, cursor |-> cur + n]

consume_n(d, cur, n) ==
    LET new_cursor == cur + n IN
    IF new_cursor > Len(d)
    THEN [err |-> OutOfBounds, cursor |-> cur]
    ELSE [err |-> NoErr, cursor |-> new_cursor]

read_n_bytes(d, cur, n) ==
    LET orig == cur
        c == consume_n(d, cur, n) IN
    IF c.err # NoErr
    THEN [err |-> c.err, cursor |-> c.cursor, bytes |-> <<>>, hi |-> 0]
    ELSE [err |-> NoErr, cursor |-> c.cursor,
          bytes |-> SubSeq(d, orig + 1, orig + n), hi |-> orig + n]

\* mem::transmute::<[u8; 4], u32>: the array's bytes in the host's order
transmute32(barr, be) ==
    IF be
    THEN 16777216 * barr[1] + 65536 * barr[2] + 256 * barr[3] + barr[4]
    ELSE barr[1] + 256 * barr[2] + 65536 * barr[3] + 16777216 * barr[4]

\* mem::transmute::<[u8; 2], u16>
transmute16(barr, be) ==
    IF be THEN 256 * barr[1] + barr[2] ELSE barr[1] + 256 * barr[2]

read_dword(d, cur, be) ==
    LET r == read_n_bytes(d, cur, 4) IN
    IF r.err # NoErr
    THEN [err |-> r.err, cursor |-> r.cursor, val |-> 0, hi |-> 0]
    ELSE IF Len(r.bytes) < 4
    THEN [err |-> IncorrectAccess, cursor |-> r.cursor, val |-> 0, hi |-> r.hi]
    ELSE [err |-> NoErr, cursor |-> r.cursor,
          val |-> transmute32(r.bytes, be), hi |-> r.hi]

read_word(d, cur, be) ==
    LET r == read_n_bytes(d, cur, 2) IN
    IF r.err # NoErr
    THEN [err |-> r.err, cursor |-> r.cursor, val |-> 0, hi |-> 0]
    ELSE IF Len(r.bytes) < 2
    THEN [err |-> IncorrectAccess, cursor |-> r.cursor, val |-> 0, hi |-> r.hi]
    ELSE [err |-> NoErr, cursor |-> r.cursor,
          val |-> transmute16(r.bytes, be), hi |-> r.hi]

read_byte(d, cur) ==
    LET orig == cur
        c == consume_n(d, cur, 1) IN
    IF c.err # NoErr
    THEN [err |-> c.err, cursor |-> c.cursor, val |-> 0, hi |-> 0]
    ELSE [err |-> NoErr, cursor |-> c.cursor, val |-> d[orig + 1], hi |-> orig + 1]

----------------------------------------------------------------------------
(* The checks of the header stages and the pieces of read_pixel_array.     *)

\* the magic check with only its first comparison
MagicOk_firstByte(d, orig) == d[orig + 1] = MagicB

\* the condition of line 95 negated: both magic bytes are as expected
MagicOk(d, orig) == d[orig + 1] = MagicB /\ d[orig + 2] = MagicM

\* the end of the span line 95 dereferences (|| does not evaluate its
\* right operand when the left one already holds)
MagicHi(d, orig) == IF d[orig + 1] # MagicB THEN orig + 1 ELSE orig + 2

AcceptedLengths == {40, 52, 56, 108, 124}
\* the length match as a lower bound instead of the five patterns
AcceptedLength_atLeast(l) == l >= 40
AcceptedLength(l) == l \in AcceptedLengths

AcceptedDepths == {24, 32}
AcceptedDepth(dp) == dp \in AcceptedDepths

\* the last skip without the 16 bytes already read taken off
RestOfHeader_whole(l) == l

\* what follows the 16 bytes of fields inside the declared header
RestOfHeader(l) == l - DibFieldsLen

\* the padding that fills a row of w bytes up to a multiple of 4
pad_bytes_aligned(w) == (4 - (w % 4)) % 4

pad_bytes(w) == w % 4

\* the pixel with its alpha and red channels exchanged
Pixel_swapped(r, gr, bl, al) == [red |-> al, green |-> gr, blue |-> bl, alpha |-> r]

Pixel(r, gr, bl, al) == [red |-> r, green |-> gr, blue |-> bl, alpha |-> al]

\* read_pixel_array without its pixel_arr.reverse()
reverse_none(s) == s

RECURSIVE reverse(_)
reverse(s) == IF s = <<>> THEN <<>> ELSE Append(reverse(Tail(s)), Head(s))

\* the position the loops of read_pixel_array are at once `rows` rows are
\* pushed and the current row holds `cols` pixels
LoopPc(rows, cols, w, h) ==
    IF rows >= h THEN "reverse"
    ELSE IF cols >= w THEN "row_pad"
    ELSE "pixel_a"

----------------------------------------------------------------------------
(* The byte vectors decode_bmp is run on. *)

LE32(v) == <<v % 256, (v \div 256) % 256, (v \div 65536) % 256, (v \div 16777216) % 256>>
LE16(v) == <<v % 256, (v \div 256) % 256>>
BE32(v) == <<(v \div 16777216) % 256, (v \div 65536) % 256, (v \div 256) % 256, v % 256>>
BE16(v) == <<(v \div 256) % 256, v % 256>>
Enc32(v, be) == IF be THEN BE32(v) ELSE LE32(v)
Enc16(v, be) == IF be THEN BE16(v) ELSE LE16(v)
Fill(n, x) == [i \in 1..n |-> x]

\* the j-th byte of the stored pixel array: all different
PixByte(j) == (7 * j + 1) % 256

BytesPerPixel(dp) == IF dp = 24 THEN 3 ELSE 4
RowSize(w, dp) == w * BytesPerPixel(dp) + (w % 4)

Magics == {<<MagicB, MagicM>>, <<MagicB, 0>>, <<0, MagicM>>, <<MagicM, MagicB>>}
Lengths == AcceptedLengths \cup {12, 64}
Depths == AcceptedDepths \cup {8}

\* a whole file: header fields encoded in byte order enc, then h stored
\* rows of w pixels with their padding, then MaxExtra more bytes
File(magic, enc, l, w, h, dp) ==
    magic \o Fill(12, 0)
          \o Enc32(l, enc) \o Enc32(w, enc) \o Enc32(h, enc)
          \o Enc16(1, enc) \o Enc16(dp, enc)
          \o Fill(Max(l - 16, 0), 170)
          \o [j \in 1..(h * RowSize(w, dp) + MaxExtra) |-> PixByte(j)]

\* the lengths the file is truncated to: around every header field, and
\* every length from the end of the header on
Cuts(l, full) ==
    {0, 1, 2, 13, 14, 17, 18, 21, 22, 25, 26, 27, 28, 29, 30}
       \cup (Max(FileHeaderLen + l - 1, 0) .. full)

Init ==
    /\ \E m \in Magics, enc \in BOOLEAN, l \in Lengths,
          w \in 0..MaxW, h \in 0..MaxH, dp \in Depths :
         LET f == File(m, enc, l, w, h, dp) IN
         \E n \in Cuts(l, Len(f)) :
            /\ n <= Len(f)
            /\ data = SubSeq(f, 1, n)
            /\ bigEndian \in BOOLEAN
            \* a file whose magic is wrong, or whose fields are in the other
            \* byte order than the host's, is rejected before its dimensions
            \* matter: those inputs vary the header, not the image
            /\ (m # <<MagicB, MagicM>> \/ bigEndian # enc) => (w = 1 /\ h = 1)
    /\ cursor = 0
    /\ pc = "read_bmp_header"
    /\ err = NoErr
    /\ length = 0 /\ width = 0 /\ height = 0 /\ depth = 0
    /\ info = NoInfo
    /\ a = 0 /\ b = 0 /\ g = 0
    /\ row_vec = <<>>
    /\ pixel_arr = <<>>
    /\ result = NoResult
    /\ hiRead = 0

----------------------------------------------------------------------------
(* decode_bmp, one action per call it makes.                               *)

\* try!: the error is returned to the caller of decode_bmp
Fail(e, cur, hi) ==
    /\ pc' = "failed"
    /\ err' = e
    /\ cursor' = cur
    /\ hiRead' = Max(hiRead, hi)

Go(next, cur, hi) ==
    /\ pc' = next
    /\ err' = err
    /\ cursor' = cur
    /\ hiRead' = Max(hiRead, hi)

ReadBmpHeader ==
    /\ pc = "read_bmp_header"
    /\ LET orig == cursor
           c == consume_n(data, cursor, FileHeaderLen) IN
       IF c.err # NoErr THEN Fail(c.err, c.cursor, 0)
       ELSE IF ~MagicOk(data, orig) THEN Fail(InvalidMagic, c.cursor, MagicHi(data, orig))
       ELSE Go("dib_length", c.cursor, MagicHi(data, orig))
    /\ UNCHANGED <<data, bigEndian, length, width, height, depth, info,
                   a, b, g, row_vec, pixel_arr, result>>

ReadLength ==
    /\ pc = "dib_length"
    /\ LET r == read_dword(data, cursor, bigEndian) IN
       IF r.err # NoErr THEN Fail(r.err, r.cursor, r.hi) /\ length' = length
       ELSE IF ~AcceptedLength(r.val)
            THEN Fail(UnsupportedHeaderVariant, r.cursor, r.hi) /\ length' = length
       ELSE Go("dib_width", r.cursor, r.hi) /\ length' = r.val
    /\ UNCHANGED <<data, bigEndian, width, height, depth, info,
                   a, b, g, row_vec, pixel_arr, result>>

ReadWidth ==
    /\ pc = "dib_width"
    /\ LET r == read_dword(data, cursor, bigEndian) IN
       IF r.err # NoErr THEN Fail(r.err, r.cursor, r.hi) /\ width' = width
       ELSE Go("dib_height", r.cursor, r.hi) /\ width' = r.val
    /\ UNCHANGED <<data, bigEndian, length, height, depth, info,
                   a, b, g, row_vec, pixel_arr, result>>

ReadHeight ==
    /\ pc = "dib_height"
    /\ LET r == read_dword(data, cursor, bigEndian) IN
       IF r.err # NoErr THEN Fail(r.err, r.cursor, r.hi) /\ height' = height
       ELSE Go("dib_planes", r.cursor, r.hi) /\ height' = r.val
    /\ UNCHANGED <<data, bigEndian, length, width, depth, info,
                   a, b, g, row_vec, pixel_arr, result>>

SkipPlanes ==
    /\ pc = "dib_planes"
    /\ LET c == consume_n(data, cursor, PlanesLen) IN
       IF c.err # NoErr THEN Fail(c.err, c.cursor, 0)
       ELSE Go("dib_depth", c.cursor, 0)
    /\ UNCHANGED <<data, bigEndian, length, width, height, depth, info,
                   a, b, g, row_vec, pixel_arr, result>>

ReadDepth ==
    /\ pc = "dib_depth"
    /\ LET r == read_word(data, cursor, bigEndian) IN
       IF r.err # NoErr THEN Fail(r.err, r.cursor, r.hi) /\ depth' = depth
       ELSE IF ~AcceptedDepth(r.val)
            THEN Fail(UnsupportedBitDepth, r.cursor, r.hi) /\ depth' = depth
       ELSE Go("dib_rest", r.cursor, r.hi) /\ depth' = r.val
    /\ UNCHANGED <<data, bigEndian, length, width, height, info,
                   a, b, g, row_vec, pixel_arr, result>>

\* the last skip of read_dib_header, its return, and the entry of
\* read_pixel_array up to the first call it makes
SkipRest ==
    /\ pc = "dib_rest"
    /\ LET c == consume_n(data, cursor, RestOfHeader(length)) IN
       IF c.err # NoErr THEN Fail(c.err, c.cursor, 0) /\ info' = info
       ELSE /\ Go(LoopPc(0, 0, width, height), c.cursor, 0)
            /\ info' = [width |-> width, height |-> height, depth |-> depth]
    /\ UNCHANGED <<data, bigEndian, length, width, height, depth,
                   a, b, g, row_vec, pixel_arr, result>>

ReadA ==
    /\ pc = "pixel_a"
    /\ IF info.depth = 24
       THEN Go("pixel_b", cursor, 0) /\ a' = 0
       ELSE LET r == read_byte(data, cursor) IN
            IF r.err # NoErr THEN Fail(r.err, r.cursor, r.hi) /\ a' = a
            ELSE Go("pixel_b", r.cursor, r.hi) /\ a' = r.val
    /\ UNCHANGED <<data, bigEndian, length, width, height, depth, info,
                   b, g, row_vec, pixel_arr, result>>

ReadB ==
    /\ pc = "pixel_b"
    /\ LET r == read_byte(data, cursor) IN
       IF r.err # NoErr THEN Fail(r.err, r.cursor, r.hi) /\ b' = b
       ELSE Go("pixel_g", r.cursor, r.hi) /\ b' = r.val
    /\ UNCHANGED <<data, bigEndian, length, width, height, depth, info,
                   a, g, row_vec, pixel_arr, result>>

ReadG ==
    /\ pc = "pixel_g"
    /\ LET r == read_byte(data, cursor) IN
       IF r.err # NoErr THEN Fail(r.err, r.cursor, r.hi) /\ g' = g
       ELSE Go("pixel_r", r.cursor, r.hi) /\ g' = r.val
    /\ UNCHANGED <<data, bigEndian, length, width, height, depth, info,
                   a, b, row_vec, pixel_arr, result>>

\* the read of the red channel and the push of the pixel
ReadR ==
    /\ pc = "pixel_r"
    /\ LET r == read_byte(data, cursor) IN
       IF r.err # NoErr THEN Fail(r.err, r.cursor, r.hi) /\ row_vec' = row_vec
       ELSE /\ row_vec' = Append(row_vec, Pixel(r.val, g, b, a))
            /\ Go(LoopPc(Len(pixel_arr), Len(row_vec) + 1, info.width, info.height),
                  r.cursor, r.hi)
    /\ UNCHANGED <<data, bigEndian, length, width, height, depth, info,
                   a, b, g, pixel_arr, result>>

\* the push of the finished row, the skip of its padding, and the fresh
\* row_vec of the next iteration
PadRow ==
    /\ pc = "row_pad"
    /\ pixel_arr' = Append(pixel_arr, row_vec)
    /\ LET c == consume_n(data, cursor, pad_bytes(info.width)) IN
       IF c.err # NoErr THEN Fail(c.err, c.cursor, 0) /\ row_vec' = row_vec
       ELSE /\ Go(LoopPc(Len(pixel_arr) + 1, 0, info.width, info.height), c.cursor, 0)
            /\ row_vec' = <<>>
    /\ UNCHANGED <<data, bigEndian, length, width, height, depth, info,
                   a, b, g, result>>

\* pixel_arr.reverse(), the return of read_pixel_array and of decode_bmp
Finish ==
    /\ pc = "reverse"
    /\ pixel_arr' = reverse(pixel_arr)
    /\ result' = [width |-> info.width, height |-> info.height,
                  data |-> reverse(pixel_arr)]
    /\ Go("done", cursor, 0)
    /\ UNCHANGED <<data, bigEndian, length, width, height, depth, info,
                   a, b, g, row_vec>>

Next ==
    \/ ReadBmpHeader
    \/ ReadLength
    \/ ReadWidth
    \/ ReadHeight
    \/ SkipPlanes
    \/ ReadDepth
    \/ SkipRest
    \/ ReadA
    \/ ReadB
    \/ ReadG
    \/ ReadR
    \/ PadRow
    \/ Finish

Spec == Init /\ [][Next]_vars

----------------------------------------------------------------------------
(* What the properties below read off a state.                             *)

Terminated == pc \in {"done", "failed"}

\* the stored byte at 0-based offset off
ByteAt(off) == data[off + 1]

HasMagicBytes == Len(data) >= 2
MagicBytesAreBM == ByteAt(0) = 66 /\ ByteAt(1) = 77

\* the header-length and bit-depth fields as the host's read_dword and
\* read_word return them
LengthField == transmute32(SubSeq(data, 15, 18), bigEndian)
DepthField == transmute16(SubSeq(data, 29, 30), bigEndian)

InHeaderStages ==
    pc \in {"read_bmp_header", "dib_length", "dib_width", "dib_height",
            "dib_planes", "dib_depth", "dib_rest"}

\* the offset of the pixel data, the bytes of one stored pixel and of one
\* stored row with its padding, for the header read_dib_header returned
PixelStart == 14 + length
StoredPixelSize == IF info.depth = 24 THEN 3 ELSE 4
StoredRowSize == info.width * StoredPixelSize + (info.width % 4)

\* the offset of the first byte of the pixel of 0-based stored row k,
\* column j
GroupAt(k, j) == PixelStart + k * StoredRowSize + j * StoredPixelSize

----------------------------------------------------------------------------
\* C1 (as stated): once read_bmp_header has run on a buffer whose first two
\* bytes are not 'B','M', decode has failed with InvalidMagic, whatever the
\* buffer's length.
C1_AnyLengthBadMagic ==
    (pc # "read_bmp_header" /\ HasMagicBytes /\ ~MagicBytesAreBM)
        => (pc = "failed" /\ err = InvalidMagic)

\* C1 (amended): on a buffer of at least 14 bytes whose first two bytes are
\* not 'B','M', decode fails with InvalidMagic and with no other error.
C1_BadMagic ==
    (pc # "read_bmp_header" /\ Len(data) >= 14 /\ ~MagicBytesAreBM)
        => (pc = "failed" /\ err = InvalidMagic /\ result = NoResult)

C1_Witness ==
    /\ pc = "failed" /\ err = InvalidMagic
    /\ Len(data) > 54 /\ ByteAt(0) = 66 /\ ByteAt(1) # 77

----------------------------------------------------------------------------
\* C2 (as stated): in a decoded image every pixel's alpha is 0 at depth 24
\* and the 4th stored byte of the pixel's 4-byte group at depth 32.
C2_AlphaFourthByte ==
    result # NoResult =>
        \A i \in 1..Len(result.data) : \A j \in 1..Len(result.data[i]) :
            result.data[i][j].alpha =
                IF info.depth = 24 THEN 0
                ELSE ByteAt(GroupAt(info.height - i, j - 1) + 3)

\* C2 (amended): in a decoded image every pixel's alpha is 0 at depth 24
\* and the 1st stored byte of the pixel's 4-byte group at depth 32.
C2_AlphaFirstByte ==
    result # NoResult =>
        \A i \in 1..Len(result.data) : \A j \in 1..Len(result.data[i]) :
            result.data[i][j].alpha =
                IF info.depth = 24 THEN 0
                ELSE ByteAt(GroupAt(info.height - i, j - 1))

C2_Witness ==
    /\ result # NoResult /\ info.depth = 32
    /\ Len(result.data) = 2 /\ Len(result.data[1]) = 2

----------------------------------------------------------------------------
\* C3 (as stated): read_bmp_header leaves the cursor at 14 when it succeeds
\* and at 2 when it fails on the magic bytes.
C3_BadMagicConsumesTwo ==
    /\ pc = "dib_length" => cursor = 14
    /\ (pc = "failed" /\ err = InvalidMagic) => cursor = 2

\* C3 (amended): read_bmp_header leaves the cursor at 14 when it succeeds
\* and also when it fails on the magic bytes; when fewer than 14 bytes are
\* there it fails with the cursor still at 0.
C3_HeaderCursor ==
    /\ pc = "dib_length" => cursor = 14
    /\ (pc = "failed" /\ err = InvalidMagic) => cursor = 14
    /\ (pc = "failed" /\ Len(data) < 14) => cursor = 0

C3_Witness == pc = "failed" /\ err = InvalidMagic /\ cursor = 14 /\ hiRead = 1

----------------------------------------------------------------------------
\* C4: on a buffer of 0..13 bytes decode fails with OutOfBounds, with the
\* cursor still at 0 and without having dereferenced any byte, whatever
\* the bytes are.
C4_ShortBuffer ==
    (pc # "read_bmp_header" /\ Len(data) < 14)
        => (pc = "failed" /\ err = OutOfBounds /\ cursor = 0 /\ hiRead = 0
              /\ result = NoResult)

C4_Witness ==
    /\ pc = "failed" /\ err = OutOfBounds
    /\ Len(data) = 13 /\ ~MagicBytesAreBM

----------------------------------------------------------------------------
\* C5: with valid magic, a header-length field L (as read) among 40, 52,
\* 56, 108, 124, a bit depth (as read) of 24 or 32 and at least 14 + L
\* bytes, read_dib_header returns a header, and whenever it returns one
\* the cursor is 14 + L when the pixel stage begins.
C5_PixelDataOffset ==
    /\ ( /\ ~InHeaderStages
         /\ Len(data) >= 30 /\ MagicBytesAreBM
         /\ LengthField \in {40, 52, 56, 108, 124}
         /\ DepthField \in {24, 32}
         /\ Len(data) >= 14 + LengthField )
       => (info # NoInfo /\ length = LengthField)
    /\ ( /\ info # NoInfo
         /\ pc \in {"pixel_a", "row_pad", "reverse"}
         /\ pixel_arr = <<>> /\ row_vec = <<>> )
       => (cursor = 14 + length /\ length \in {40, 52, 56, 108, 124})

C5_Witness ==
    /\ info # NoInfo /\ pc = "pixel_a" /\ pixel_arr = <<>> /\ row_vec = <<>>
    /\ length = 124 /\ cursor = 138

----------------------------------------------------------------------------
\* the pixel stored at 0-based stored row k, column j
StoredPixel(k, j) ==
    LET o == GroupAt(k, j) IN
    IF info.depth = 24
    THEN [red |-> ByteAt(o + 2), green |-> ByteAt(o + 1), blue |-> ByteAt(o),
          alpha |-> 0]
    ELSE [red |-> ByteAt(o + 3), green |-> ByteAt(o + 2), blue |-> ByteAt(o + 1),
          alpha |-> ByteAt(o)]

\* C6: a decode succeeds with a result exactly when it ends without error;
\* the result has the declared width W and height H, H rows of W pixels,
\* and output row i is the row stored i-th from the end, columns in
\* stored order.
C6_RowsFlippedOnce ==
    /\ pc = "failed" => result = NoResult
    /\ pc = "done" => result # NoResult
    /\ result # NoResult =>
         /\ result.width = width /\ result.height = height
         /\ Len(result.data) = height
         /\ \A i \in 1..height :
              /\ Len(result.data[i]) = width
              /\ \A j \in 1..width :
                   result.data[i][j] = StoredPixel(height - i, j - 1)

C6_Witness ==
    /\ result # NoResult /\ height = 2 /\ width = 2
    /\ result.data[1] # result.data[2]

----------------------------------------------------------------------------
\* C7: stored row k begins at PixelStart + k * (W * bytes_per_pixel + W % 4)
\* (W % 4 bytes are skipped after every row, the last one included, at
\* either depth), and a buffer that ends right after the last pixel of the
\* last stored row with W % 4 # 0 fails with OutOfBounds.
C7_RowPadding ==
    info # NoInfo =>
      /\ pc \in {"pixel_a", "pixel_b", "pixel_g", "pixel_r", "row_pad"} =>
           /\ cursor >= GroupAt(Len(pixel_arr), Len(row_vec))
           /\ pc \in {"pixel_a", "row_pad"} =>
                cursor = GroupAt(Len(pixel_arr), Len(row_vec))
      /\ pc \in {"reverse", "done"} => cursor = GroupAt(info.height, 0)
      /\ ( /\ Terminated
           /\ info.height > 0 /\ info.width % 4 # 0
           /\ Len(data) = GroupAt(info.height, 0) - (info.width % 4) )
         => (pc = "failed" /\ err = OutOfBounds)

C7_Witness ==
    /\ info # NoInfo /\ pc = "failed" /\ err = OutOfBounds
    /\ info.height = 2 /\ info.width % 4 # 0
    /\ Len(data) = GroupAt(info.height, 0) - (info.width % 4)
    /\ Len(pixel_arr) = 2

----------------------------------------------------------------------------
\* C8: the cursor stays within 0..Len(data) at every step, and a step that
\* fails with OutOfBounds leaves the cursor where it was.
C8_CursorInBounds ==
    /\ cursor \in 0..Len(data)
    /\ [][ /\ cursor' \in 0..Len(data')
           /\ (err' = OutOfBounds /\ err = NoErr) => cursor' = cursor ]_vars

C8_Witness ==
    /\ pc = "failed" /\ err = OutOfBounds
    /\ cursor > 14 /\ cursor < Len(data)

----------------------------------------------------------------------------
----------------------------------------------------------------------------
\* C10: the width read_dword returned is b0 + 256*b1 + 65536*b2 +
\* 16777216*b3 of its four bytes and the depth read_word returned is
\* b0 + 256*b1 of its two bytes, on every host.
C10_LittleEndianOnEveryHost ==
    /\ pc \in {"dib_height", "dib_planes", "dib_depth", "dib_rest"} =>
         width = ByteAt(18) + 256 * ByteAt(19) + 65536 * ByteAt(20)
                   + 16777216 * ByteAt(21)
    /\ pc = "dib_rest" => depth = ByteAt(28) + 256 * ByteAt(29)

====
